---- MODULE Spec2Model ----
(***************************************************************************)
(* Model of the ECG prediction backend (backend/predict.js): the p-queue   *)
(* scheduler in front of the Python subprocess, the child-process events   *)
(* runPython listens to, and the predict route's handling of the           *)
(* subprocess result (JSON.parse, validatePredictionResult, the response). *)
(***************************************************************************)
EXTENDS Integers, Sequences, FiniteSets, TLC

(***************************************************************************)
(* JSON values as JavaScript sees them after JSON.parse.  Every value is a *)
(* record of one shape: t is the value's kind, n its number (or 0/1 for a  *)
(* boolean), s its string, p the entries of a probabilities object in the  *)
(* class order CD, HYP, MI, NORM, STTC, in units of 1e-4.                  *)
(***************************************************************************)
JV(t, n, s, p) == [t |-> t, n |-> n, s |-> s, p |-> p]

Undefined == JV("undefined", 0, "", <<>>)

Null == JV("null", 0, "", <<>>)

Bool(b) == JV("boolean", IF b THEN 1 ELSE 0, "", <<>>)

Num(n) == JV("number", n, "", <<>>)

Str(s) == JV("string", 0, s, <<>>)

ProbObj(p) == JV("object", 0, "", p)

EmptyArr == JV("array", 0, "", <<>>)

\* The five diagnostic classes, in the order of the output contract.
Classes == <<"CD", "HYP", "MI", "NORM", "STTC">>

\* The properties the route reads or writes on the parsed payload.
Fields ==
    {"predicted_class", "predictedClass", "risk_level", "riskLevel",
     "risk_score", "riskScore", "confidence", "probabilities",
     "validation_confidence", "is_valid_ecg", "model_used",
     "imagePath", "imageBase64"}

\* A payload: k is what the text parsed to ("text" when it is not JSON at
\* all), f the properties of an object, by name.
NoProps == [x \in {} |-> Undefined]

Payload(k, f) == [k |-> k, f |-> f]

NoPayload == Payload("none", NoProps)

\* data.x: a property that is absent reads as undefined (also on an array).
Get(data, x) == IF x \in DOMAIN data.f THEN data.f[x] ELSE Undefined

\* The object that has the properties of `props` that are not undefined.
AllUndefined == [x \in Fields |-> Undefined]

Obj(props) ==
    Payload("object",
        [x \in {y \in DOMAIN props : props[y] # Undefined} |-> props[x]])

\* JavaScript truthiness: !v is ~Truthy(v).
Truthy(v) ==
    CASE v.t = "undefined" -> FALSE
      [] v.t = "null" -> FALSE
      [] v.t = "boolean" -> v.n = 1
      [] v.t = "number" -> v.n # 0
      [] v.t = "string" -> v.s # ""
      [] OTHER -> TRUE

\* typeof v (null and arrays are "object").
TypeOf(v) ==
    CASE v.t = "null" -> "object"
      [] v.t = "array" -> "object"
      [] OTHER -> v.t

\* a || b
JsOr(a, b) == IF Truthy(a) THEN a ELSE b

\* a ?? b
JsNullish(a, b) == IF a.t \in {"undefined", "null"} THEN b ELSE a

\* The strings of the model that Number() converts to a number.
NumericStrings == {"", "0", "25", "90"}

\* isNaN(Number(v)): Number(undefined) and Number of a non-numeric string or
\* of an object are NaN; null, booleans, numbers, numeric strings and the
\* empty array convert to a number.
IsNaNNumber(v) ==
    CASE v.t = "undefined" -> TRUE
      [] v.t = "string" -> v.s \notin NumericStrings
      [] v.t = "object" -> TRUE
      [] OTHER -> FALSE

\* Truthiness and typeof of the parsed payload itself.
DataTruthy(d) ==
    CASE d.k = "null" -> FALSE
      [] d.k = "zero" -> FALSE
      [] d.k = "emptystring" -> FALSE
      [] d.k = "false" -> FALSE
      [] OTHER -> TRUE

DataTypeOf(d) ==
    CASE d.k \in {"object", "array", "null"} -> "object"
      [] d.k \in {"zero", "number"} -> "number"
      [] d.k \in {"emptystring", "string"} -> "string"
      [] d.k \in {"false", "true"} -> "boolean"
      [] OTHER -> "undefined"

\* validatePredictionResult(data): "" stands for the null it returns when
\* the payload passes.
validatePredictionResult(data) ==
    IF ~DataTruthy(data) \/ DataTypeOf(data) # "object"
    THEN "Result is not an object"
    ELSE
      LET cls == JsOr(Get(data, "predictedClass"), Get(data, "predicted_class"))
          lvl == JsOr(Get(data, "riskLevel"), Get(data, "risk_level"))
          score == JsNullish(Get(data, "riskScore"), Get(data, "risk_score"))
          confidence == Get(data, "confidence")
          probabilities == Get(data, "probabilities")
      IN  IF ~Truthy(cls) \/ TypeOf(cls) # "string"
          THEN "predictedClass missing or invalid"
          ELSE IF ~Truthy(lvl) \/ TypeOf(lvl) # "string"
          THEN "riskLevel missing or invalid"
          ELSE IF score.t = "undefined" \/ IsNaNNumber(score)
          THEN "riskScore missing or invalid"
          ELSE IF confidence.t = "undefined" \/ IsNaNNumber(confidence)
          THEN "confidence missing or invalid"
          ELSE IF Truthy(probabilities) /\ TypeOf(probabilities) # "object"
          THEN "probabilities must be an object when provided"
          ELSE ""

(***************************************************************************)
(* What runPython's promise settles with, and what the route answers.      *)
(***************************************************************************)
\* The exit codes a close event reports: 0, a failure code, and NullCode for
\* the null Node reports when a signal ended the process.
NullCode == -1

\* The negative code Node reports on close when the spawn itself failed.
SpawnFailCode == -2

ExitCodes == {0, 1, NullCode}

Resolved(out) == [st |-> "resolved", out |-> out, reason |-> ""]

Rejected(reason) == [st |-> "rejected", out |-> NoPayload, reason |-> reason]

\* `${code}` in a template literal.
CodeText(code) ==
    CASE code = NullCode -> "null"
      [] code = SpawnFailCode -> "-2"
      [] code = 0 -> "0"
      [] OTHER -> "1"

\* What a process wrote on stderr by the time it closed.
StderrTexts == {"", "E\n"}

\* `Python exited with code ${code}\n${errors}`
ExitReason(code, errs) ==
    "Python exited with code " \o CodeText(code) \o "\n" \o errs

\* `Failed to spawn Python: ${err.message}`
SpawnReason == "Failed to spawn Python: spawn python3 ENOENT"

\* py.on("close"): reject unless the code is 0, else resolve with the output.
CloseResult(code, out, errs) ==
    IF code # 0 THEN Rejected(ExitReason(code, errs)) ELSE Resolved(out)

\* py.on("error")
ErrorResult == Rejected(SpawnReason)

\* A promise settles once: resolve or reject on a settled promise does nothing.
Settle(cur, new) == IF cur = "pending" THEN new ELSE cur

\* An HTTP response of the predict route: the status code and the JSON body
\* (a field the body does not carry is "" or NoPayload).
Reply(code, status, message, details, pythonOutput, result) ==
    [code |-> code, status |-> status, message |-> message,
     details |-> details, pythonOutput |-> pythonOutput, result |-> result]

NoFileReply ==
    Reply(400, "error", "No ECG image uploaded", "", NoPayload, NoPayload)

\* The route's catch block.
FailedReply(details) ==
    Reply(500, "error", "Prediction failed", details, NoPayload, NoPayload)

\* jsonData.imagePath = ...; jsonData.imageBase64 = ...
AttachImage(data) ==
    Payload(data.k,
        [x \in DOMAIN data.f \cup {"imagePath", "imageBase64"} |->
            IF x = "imagePath" THEN Str("/uploads/file")
            ELSE IF x = "imageBase64" THEN Str("data:image/png;base64,")
            ELSE data.f[x]])

\* As PredictReply, without the validation step (the route as it was before
\* validatePredictionResult was added).
PredictReplyUnvalidated(run) ==
    IF run.st = "rejected" THEN FailedReply(run.reason)
    ELSE IF run.out.k = "text"
    THEN Reply(500, "error", "Invalid JSON returned by Python", "", run.out, NoPayload)
    ELSE Reply(200, "success", "", "", NoPayload, AttachImage(run.out))

\* The route from the settled mlQueue.add promise to its response: a
\* rejection reaches the catch block; a resolved output is parsed
\* (JSON.parse throws on text that is not JSON), validated and returned.
PredictReply(run) ==
    IF run.st = "rejected" THEN FailedReply(run.reason)
    ELSE IF run.out.k = "text"
    THEN Reply(500, "error", "Invalid JSON returned by Python", "", run.out, NoPayload)
    ELSE LET validationError == validatePredictionResult(run.out)
         IN  IF validationError # ""
             THEN Reply(500, "error", "Invalid prediction payload",
                        validationError, NoPayload, NoPayload)
             ELSE Reply(200, "success", "", "", NoPayload, AttachImage(run.out))

(***************************************************************************)
(* The scheduler: mlQueue = new PQueue({ concurrency: 2 }) and the child   *)
(* processes its tasks spawn.                                              *)
(***************************************************************************)
\* new PQueue({ concurrency: 2 })
Concurrency == 2

\* The predict requests of a burst.
NJobs == 4

Jobs == 1..NJobs

\* What the subprocess of a run prints on stdout, once parsed.
ValidOutput ==
    Obj([AllUndefined EXCEPT !["predicted_class"] = Str("NORM"),
                        !["confidence"] = Num(90),
                        !["probabilities"] = ProbObj(<<500, 500, 0, 9000, 0>>),
                        !["risk_score"] = Num(25),
                        !["risk_level"] = Str("Low"),
                        !["validation_confidence"] = Num(95),
                        !["is_valid_ecg"] = Bool(TRUE),
                        !["model_used"] = Str("CNN-GNN")])

\* A payload without risk_level, which validatePredictionResult refuses.
PartialOutput ==
    Obj([AllUndefined EXCEPT !["predicted_class"] = Str("MI"),
                        !["confidence"] = Num(90),
                        !["is_valid_ecg"] = Bool(TRUE)])

\* Output that is not JSON (a traceback, a log line, nothing at all).
TextOutput == Payload("text", NoProps)

SchedOutputs == {ValidOutput, PartialOutput, TextOutput}

VARIABLES
    queue,      \* mlQueue's waiting tasks, in dequeue order (mlQueue.size)
    pending,    \* mlQueue.pending: tasks started and not yet settled
    enqueued,   \* the requests passed to mlQueue.add, in call order
    promise,    \* per request, the state of its runPython promise
    proc,       \* per request, its child process
    spawns,     \* per request, the number of spawn calls made for it
    replies,    \* per request, the responses sent, in order
    received,   \* per request, what req.file was when the handler ran
    routeIn,    \* route-only run: what mlQueue.add settled with
    routeOut,   \* route-only run: the responses sent
    runProc,    \* one runPython call: its child process
    output,     \* one runPython call: the closure's `output` string
    errors,     \* one runPython call: the closure's `errors` string
    stdoutLog,  \* the chunks the child wrote to stdout, in arrival order
    stderrLog,  \* the chunks the child wrote to stderr, in arrival order
    runPromise, \* one runPython call: the promise it returned
    runEvents,  \* the error and close events the child emitted, in order
    env,        \* server.js: process.env.FRONTEND_URL
    allowedOrigins, \* server.js: the allow-list computed when the module loads
    corsLog,    \* the requests the cors middleware decided, with the decision
    bootPc,     \* server.js: where the start-up is
    dbConn,     \* server.js: the state of mongoose.connect's promise
    seedIdx,    \* server.js: the seed user the loop is at
    listening,  \* server.js: app.listen has been called
    exitCode,   \* server.js: the code process.exit was called with
    closing,    \* server.js: how far gracefulShutdown's chain of closes is
    forceTimer, \* server.js: a "Force shutdown" timer is pending
    otherPc,    \* server.js in another process on the same database: its seed loop
    otherIdx,   \* server.js in that process: the seed user its loop is at
    users,      \* the User collection: its documents in insertion order
    uniqueEmail, \* models/User.js: the collection has a unique index on email
    jwtSecret,  \* process.env.JWT_SECRET is set
    areq,       \* per client, its signup/login/update-password request in flight
    authReply,  \* the response the last step sent, if it sent one
    reports,    \* the PatientReport collection: its documents in insertion order
    sreq,       \* per client, its save-report request in flight
    saveReply,  \* the response the last save-report step sent, if it sent one
    upload,     \* one predict request: the file part of its multipart body
    uploadPc,   \* one predict request: where it is in the middleware chain
    uploadReply \* one predict request: the response of the global error handler

schedVars == <<queue, pending, enqueued, promise, proc, spawns, replies, received>>

routeVars == <<routeIn, routeOut>>

runVars == <<runProc, output, errors, stdoutLog, stderrLog, runPromise, runEvents>>

\* The variables outside the scheduler and the route.
corsVars == <<env, allowedOrigins, corsLog>>

otherVars == <<otherPc, otherIdx>>

bootVars == <<bootPc, dbConn, seedIdx, listening, exitCode, closing, forceTimer, otherVars>>

authVars == <<uniqueEmail, jwtSecret, areq, authReply>>

reportVars == <<reports, sreq, saveReply>>

uploadVars == <<upload, uploadPc, uploadReply>>

extVars == <<runVars, corsVars, bootVars, users, authVars, reportVars, uploadVars>>

\* The variables outside one runPython call, the scheduler and the route.
restOfRun == <<corsVars, bootVars, users, authVars, reportVars, uploadVars>>

\* The variables outside the cors middleware, the scheduler and the route.
restOfCors == <<runVars, bootVars, users, authVars, reportVars, uploadVars>>

\* The variables outside the start-up and the User collection.
restOfBoot == <<schedVars, routeVars, runVars, authVars, reportVars, uploadVars>>

\* The variables outside the auth routes and the User collection.
restOfAuth == <<schedVars, routeVars, runVars, corsVars, bootVars, reportVars, uploadVars>>

\* The variables outside the save-report route.
restOfReports == <<schedVars, routeVars, runVars, corsVars, bootVars, users, authVars,
                   uploadVars>>

vars == <<queue, pending, enqueued, promise, proc, spawns, replies, received,
          routeIn, routeOut,
          runProc, output, errors, stdoutLog, stderrLog, runPromise, runEvents,
          env, allowedOrigins, corsLog,
          bootPc, dbConn, seedIdx, listening, exitCode, closing, forceTimer,
          otherPc, otherIdx, users,
          uniqueEmail, jwtSecret, areq, authReply,
          reports, sreq, saveReply, upload, uploadPc, uploadReply>>

\* A promise nobody has settled, and one settled with a value.
PendingPromise == [st |-> "pending", value |-> <<>>]

\* No runPython call under observation.
RunIdle ==
    /\ runProc = "none"
    /\ output = <<>>
    /\ errors = <<>>
    /\ stdoutLog = <<>>
    /\ stderrLog = <<>>
    /\ runPromise = PendingPromise
    /\ runEvents = <<>>

\* process.env.X of a variable that is not set, a header that is absent.
NotSet == <<"undefined">>

\* server.js not loaded.
CorsIdle ==
    /\ env = NotSet
    /\ allowedOrigins = <<>>
    /\ corsLog = <<>>

\* process.exit has not been called.
NotExited == -1

\* The process is not under observation.
BootIdle ==
    /\ bootPc = "off"
    /\ dbConn = "none"
    /\ seedIdx = 0
    /\ listening = FALSE
    /\ exitCode = NotExited
    /\ closing = "no"
    /\ forceTimer = FALSE
    /\ otherPc = "off"
    /\ otherIdx = 0

\* The clients of the auth routes.
Clients == {"c1", "c2"}

\* A password as text: a string as the client typed it, or the text of the
\* bcrypt hash of a string.
Hashed(p) == [kind |-> "hash", of |-> p]

Plain(p) == [kind |-> "plain", of |-> p]

NoPassword == [kind |-> "none", of |-> ""]

AuthRequest(route, email, password, confirm, current, new, jwt, pc, found, snap, touched) ==
    [route |-> route, email |-> email, password |-> password, confirm |-> confirm,
     current |-> current, new |-> new, jwt |-> jwt, pc |-> pc, found |-> found,
     snap |-> snap, pid |-> "", touched |-> touched]

NoRequest == AuthRequest("none", "", "", "", NoPassword, "", "none", "idle", 0, NoPassword, "none")

AuthReply(req, code, message, token, touched) ==
    [route |-> req.route, email |-> req.email, password |-> req.password,
     confirm |-> req.confirm, current |-> req.current,
     new |-> req.new, jwt |-> req.jwt, stored |-> req.snap,
     code |-> code, message |-> message, token |-> token, touched |-> touched]

NoReply == AuthReply(NoRequest, 0, "", <<>>, "none")

\* No request to the auth routes.
AuthIdle ==
    /\ uniqueEmail = FALSE
    /\ jwtSecret = TRUE
    /\ areq = [c \in Clients |-> NoRequest]
    /\ authReply = NoReply

SaveRequest(email, pc, next) == [email |-> email, pc |-> pc, next |-> next]

NoSave == SaveRequest("", "idle", 0)

SaveReply(email, code, message, patientId) ==
    [email |-> email, code |-> code, message |-> message, patientId |-> patientId]

NoSaveReply == SaveReply("", 0, "", 0)

\* No request to the save-report route.
ReportIdle ==
    /\ reports = <<>>
    /\ sreq = [c \in Clients |-> NoSave]
    /\ saveReply = NoSaveReply

\* The file part of a multipart body: its size in bytes, the extension of
\* its originalname and its mimetype, as character sequences.
File(size, ext, mime) == [size |-> size, ext |-> ext, mime |-> mime]

NoFile == File(0, <<>>, <<>>)

ErrorReply(code, message) == [code |-> code, message |-> message]

NoErrorReply == ErrorReply(0, "")

\* No upload under observation.
UploadIdle ==
    /\ upload = NoFile
    /\ uploadPc = "off"
    /\ uploadReply = NoErrorReply

ExtIdle ==
    /\ RunIdle /\ CorsIdle /\ BootIdle /\ users = <<>> /\ AuthIdle
    /\ ReportIdle /\ UploadIdle

Range(q) == {q[i] : i \in 1..Len(q)}

Remove(q, j) == SelectSeq(q, LAMBDA x : x # j)

\* A child process: not spawned, "alive" (running), "nospawn" (spawn failed,
\* error event due), "errored" (error event emitted, close event due) or
\* "closed".
Proc(st, code, out, errs) == [st |-> st, code |-> code, out |-> out, errs |-> errs]

NoProc == Proc("none", 0, NoPayload, "")

\* spawn(pythonPath, ...): the process starts, or the spawn fails and Node
\* reports it with an error event on a later tick.
SpawnOutcomes == {"alive", "nospawn"}

\* p-queue's #doesConcurrentAllowAnother
CanStartLoose(p) == p <= Concurrency

CanStart(p) == p < Concurrency

\* p-queue's dequeue: the task at the front (all tasks have priority 0).
NextJobNewest(q) == q[Len(q)]

NextJob(q) == Head(q)

\* p-queue's #tryToStartAnother: the task it starts, if any.
Starts(q, p) == IF q # <<>> /\ CanStart(p) THEN {NextJob(q)} ELSE {}

\* The outcomes of the spawn #tryToStartAnother leads to (one, unused, when
\* it starts nothing).
OutcomesFor(q, p) == IF Starts(q, p) = {} THEN {"alive"} ELSE SpawnOutcomes

SchedInit ==
    /\ queue = <<>>
    /\ pending = 0
    /\ enqueued = <<>>
    /\ promise = [j \in Jobs |-> "none"]
    /\ proc = [j \in Jobs |-> NoProc]
    /\ spawns = [j \in Jobs |-> 0]
    /\ replies = [j \in Jobs |-> <<>>]
    /\ received = [j \in Jobs |-> ""]

NoRun == [st |-> "none", out |-> NoPayload, reason |-> ""]

Init ==
    /\ SchedInit
    /\ routeIn = NoRun
    /\ routeOut = <<>>
    /\ ExtIdle

\* A request that has not reached the route handler yet.
Fresh(j) == replies[j] = <<>> /\ j \notin Range(enqueued)

\* The requests arrive in the order of their numbers.
NextRequest(j) == Fresh(j) /\ \A k \in Jobs : k < j => ~Fresh(k)

\* The effect of #tryToStartAnother on a queue q with p pending tasks and
\* promises pr, processes pc, spawn counts sp: the task it dequeues starts at
\* once (pending++), and its function calls runPython, which creates the
\* promise and spawns the child process, with outcome o.
StartFrom(q, p, pr, pc, sp, o) ==
    LET s == Starts(q, p)
    IN  /\ queue' = IF s = {} THEN q ELSE Remove(q, NextJob(q))
        /\ pending' = p + Cardinality(s)
        /\ promise' = [k \in Jobs |-> IF k \in s THEN "pending" ELSE pr[k]]
        /\ spawns' = [k \in Jobs |-> IF k \in s THEN sp[k] + 1 ELSE sp[k]]
        /\ proc' = [k \in Jobs |-> IF k \in s THEN Proc(o, 0, NoPayload, "") ELSE pc[k]]

\* As Request, but a request without a file is queued like any other.
RequestUnchecked(j, file) ==
    /\ NextRequest(j)
    /\ received' = [received EXCEPT ![j] = file]
    /\ UNCHANGED <<routeVars, extVars>>
    /\ \/ /\ file = "unreadable"
          /\ replies' = [replies EXCEPT ![j] = <<FailedReply("Error: ENOENT")>>]
          /\ UNCHANGED <<queue, pending, enqueued, promise, proc, spawns>>
       \/ /\ file \in {"none", "ok"}
          /\ enqueued' = Append(enqueued, j)
          /\ \E o \in OutcomesFor(Append(queue, j), pending) :
                StartFrom(Append(queue, j), pending, promise, proc, spawns, o)
          /\ UNCHANGED replies

\* router.post("/") up to its await: without a file it answers 400; when the
\* upload cannot be read it answers 500 from the catch block; otherwise it
\* calls mlQueue.add, which enqueues the task and tries to start one.
Request(j, file) ==
    /\ NextRequest(j)
    /\ received' = [received EXCEPT ![j] = file]
    /\ UNCHANGED <<routeVars, extVars>>
    /\ \/ /\ file = "none"
          /\ replies' = [replies EXCEPT ![j] = <<NoFileReply>>]
          /\ UNCHANGED <<queue, pending, enqueued, promise, proc, spawns>>
       \/ /\ file = "unreadable"
          /\ replies' = [replies EXCEPT ![j] = <<FailedReply("Error: ENOENT")>>]
          /\ UNCHANGED <<queue, pending, enqueued, promise, proc, spawns>>
       \/ /\ file = "ok"
          /\ enqueued' = Append(enqueued, j)
          /\ \E o \in OutcomesFor(Append(queue, j), pending) :
                StartFrom(Append(queue, j), pending, promise, proc, spawns, o)
          /\ UNCHANGED replies

\* As SettleEvent, but a rejection does not release the slot (p-queue's #next
\* skipped when the task throws).
SettleEventLeak(j, run, pc1) ==
    /\ UNCHANGED <<enqueued, received, routeVars, extVars>>
    /\ IF promise[j] = "pending" /\ run.st = "resolved"
       THEN /\ \E o \in OutcomesFor(queue, pending - 1) :
                  StartFrom(queue, pending - 1,
                            [promise EXCEPT ![j] = Settle(@, run.st)],
                            [proc EXCEPT ![j] = pc1], spawns, o)
            /\ replies' = [replies EXCEPT ![j] = Append(@, PredictReply(run))]
       ELSE IF promise[j] = "pending"
       THEN /\ promise' = [promise EXCEPT ![j] = Settle(@, run.st)]
            /\ proc' = [proc EXCEPT ![j] = pc1]
            /\ replies' = [replies EXCEPT ![j] = Append(@, PredictReply(run))]
            /\ UNCHANGED <<queue, pending, spawns>>
       ELSE /\ proc' = [proc EXCEPT ![j] = pc1]
            /\ UNCHANGED <<queue, pending, promise, spawns, replies>>

\* As SettleEvent, but the route answers on every event of the child, a
\* settled promise or not.
SettleEventAnswerAll(j, run, pc1) ==
    /\ UNCHANGED <<enqueued, received, routeVars, extVars>>
    /\ replies' = [replies EXCEPT ![j] = Append(@, PredictReply(run))]
    /\ IF promise[j] = "pending"
       THEN \E o \in OutcomesFor(queue, pending - 1) :
                  StartFrom(queue, pending - 1,
                            [promise EXCEPT ![j] = Settle(@, run.st)],
                            [proc EXCEPT ![j] = pc1], spawns, o)
       ELSE /\ proc' = [proc EXCEPT ![j] = pc1]
            /\ UNCHANGED <<queue, pending, promise, spawns>>

\* An event handler of runPython settles the promise of j with `run`, the
\* process becoming pc1.  If the promise was still pending, the microtasks
\* that follow are p-queue's #next (pending--, #tryToStartAnother) and the
\* route's continuation after the await, which sends the response.  On a
\* settled promise resolve and reject do nothing.
SettleEvent(j, run, pc1) ==
    /\ UNCHANGED <<enqueued, received, routeVars, extVars>>
    /\ IF promise[j] = "pending"
       THEN /\ \E o \in OutcomesFor(queue, pending - 1) :
                  StartFrom(queue, pending - 1,
                            [promise EXCEPT ![j] = Settle(@, run.st)],
                            [proc EXCEPT ![j] = pc1], spawns, o)
            /\ replies' = [replies EXCEPT ![j] = Append(@, PredictReply(run))]
       ELSE /\ proc' = [proc EXCEPT ![j] = pc1]
            /\ UNCHANGED <<queue, pending, promise, spawns, replies>>

\* As PythonError, but the job whose spawn failed is put back into the queue.
PythonErrorRequeue(j) ==
    /\ proc[j].st = "nospawn"
    /\ UNCHANGED <<enqueued, received, routeVars, replies, extVars>>
    /\ \E o \in OutcomesFor(Append(queue, j), pending - 1) :
          StartFrom(Append(queue, j), pending - 1,
                    [promise EXCEPT ![j] = "none"],
                    [proc EXCEPT ![j] = NoProc], spawns, o)

\* py.on("error"): the spawn failed.
PythonError(j) ==
    /\ proc[j].st = "nospawn"
    /\ SettleEvent(j, ErrorResult, Proc("errored", 0, NoPayload, ""))

\* As PythonClose, but a process that exits with a failure code is spawned
\* again, once.
PythonCloseRetry(j, code, out, errs) ==
    /\ \/ /\ proc[j].st = "alive"
          /\ code = 0
          /\ errs = ""
       \/ /\ proc[j].st = "alive"
          /\ code \in ExitCodes \ {0}
          /\ out = TextOutput
       \/ /\ proc[j].st = "errored"
          /\ code = SpawnFailCode
          /\ out = TextOutput
          /\ errs = ""
    /\ IF proc[j].st = "alive" /\ code # 0 /\ spawns[j] < 2
       THEN /\ spawns' = [spawns EXCEPT ![j] = @ + 1]
            /\ UNCHANGED <<queue, pending, enqueued, promise, proc, replies, received, routeVars, extVars>>
       ELSE SettleEvent(j, CloseResult(code, out, errs), Proc("closed", code, out, errs))

\* py.on("close"): the process ended with `code` having printed `out` and
\* written `errs` on stderr (the output of a process that fails and the
\* stderr of one that succeeds are never read: they are taken to be text
\* and empty);
\* after a failed spawn Node still emits close, with a negative code.
PythonClose(j, code, out, errs) ==
    /\ \/ /\ proc[j].st = "alive"
          /\ code = 0
          /\ errs = ""
       \/ /\ proc[j].st = "alive"
          /\ code \in ExitCodes \ {0}
          /\ out = TextOutput
       \/ /\ proc[j].st = "errored"
          /\ code = SpawnFailCode
          /\ out = TextOutput
          /\ errs = ""
    /\ SettleEvent(j, CloseResult(code, out, errs), Proc("closed", code, out, errs))

Next ==
    \/ \E j \in Jobs, file \in {"none", "unreadable", "ok"} : Request(j, file)
    \/ \E j \in Jobs : PythonError(j)
    \/ \E j \in Jobs, code \in ExitCodes \cup {SpawnFailCode}, out \in SchedOutputs,
             errs \in StderrTexts :
          PythonClose(j, code, out, errs)

Spec == Init /\ [][Next]_vars

\* Node delivers every event that is due: the error event of a failed spawn
\* and the close event that follows it.  When a running process exits is up
\* to the process: nothing in runPython makes it exit.
Fairness ==
    /\ \A j \in Jobs : WF_vars(PythonError(j))
    /\ \A j \in Jobs : WF_vars(PythonClose(j, SpawnFailCode, TextOutput, ""))

FairSpec == Init /\ [][Next]_vars /\ Fairness

\* The premise that every child process that was spawned ends: its close
\* event is emitted at some time, with whatever code and output.
EveryProcessCloses ==
    \A j \in Jobs : WF_vars(\E code \in ExitCodes, out \in SchedOutputs, errs \in StderrTexts :
                            PythonClose(j, code, out, errs))

ClosingSpec == Init /\ [][Next]_vars /\ Fairness /\ EveryProcessCloses

\* The state of a job in the scheduler's state machine.
Succeeded(j) == \E i \in 1..Len(replies[j]) : replies[j][i].status = "success"

JobState(j) ==
    IF j \notin Range(enqueued) THEN "None"
    ELSE IF j \in Range(queue) THEN "Queued"
    ELSE IF promise[j] = "pending" THEN "Running"
    ELSE IF Succeeded(j) THEN "Succeeded"
    ELSE "Failed"

\* The child processes that exist: spawned and not yet closed.
RunningProcs == {j \in Jobs : proc[j].st = "alive"}

(***************************************************************************)
(* The route alone, from the settled mlQueue.add promise to the response,  *)
(* over every payload the subprocess can print.                            *)
(***************************************************************************)
ClassValues == {Undefined, Null, Str("NORM"), Str("MI"), Str("")}

LevelValues == {Undefined, Str("Low"), Num(1)}

ScoreValues == {Undefined, Null, Num(25), Str("abc")}

ConfidenceValues == {Undefined, Null, Num(90), Str("x")}

\* probabilities: absent, null, a string, [], the empty object, a distribution
\* with NORM highest, one with MI highest, and percentages (summing to 100).
ProbValues ==
    {Undefined, Null, Str("n/a"), EmptyArr, ProbObj(<<>>),
     ProbObj(<<500, 500, 0, 9000, 0>>),
     ProbObj(<<1000, 1000, 6000, 1000, 1000>>),
     ProbObj(<<150000, 250000, 200000, 250000, 150000>>)}

ObjectOutputs(probValues) ==
    {Obj([AllUndefined EXCEPT !["predicted_class"] = pc,
                        !["predictedClass"] = pC,
                        !["risk_level"] = rl,
                        !["riskLevel"] = rL,
                        !["risk_score"] = rs,
                        !["riskScore"] = rS,
                        !["confidence"] = cf,
                        !["probabilities"] = pr,
                        !["validation_confidence"] = vc,
                        !["is_valid_ecg"] = iv,
                        !["model_used"] = mu]) :
        pc \in ClassValues, pC \in {Undefined, Str("MI")},
        rl \in LevelValues, rL \in {Undefined, Str("High")},
        rs \in ScoreValues, rS \in {Undefined, Num(80)},
        cf \in ConfidenceValues, pr \in probValues,
        vc \in {Undefined, Num(95)},
        iv \in {Undefined, Bool(TRUE), Bool(FALSE)},
        mu \in {Undefined, Str("CNN-GNN")}}

\* JSON texts that are not an object: null, 0, 7, "", "ok", false, true, [].
OtherOutputs ==
    {Payload(k, NoProps) :
        k \in {"null", "zero", "number", "emptystring", "string", "false",
               "true", "array"}}

RouteOutputs(probValues) ==
    ObjectOutputs(probValues) \cup OtherOutputs \cup {TextOutput}

\* Everything the awaited promise can settle with.
RouteRuns(probValues) ==
    {CloseResult(0, out, "") : out \in RouteOutputs(probValues)}
        \cup {CloseResult(code, TextOutput, errs) :
                 code \in ExitCodes \ {0}, errs \in StderrTexts}
        \cup {ErrorResult}

RouteInit ==
    /\ SchedInit
    /\ routeIn \in RouteRuns(ProbValues)
    /\ routeOut = <<>>
    /\ ExtIdle

\* The route's continuation after `await mlQueue.add(...)`.
RouteDeliver ==
    /\ routeOut = <<>>
    /\ routeOut' = Append(routeOut, PredictReply(routeIn))
    /\ UNCHANGED <<routeIn, schedVars, extVars>>

RouteNext == RouteDeliver

RouteSpec == RouteInit /\ [][RouteNext]_vars

(***************************************************************************)
(* One runPython call, event by event: the data events of the child's      *)
(* stdout and stderr, its error event and its close event.  A string is    *)
(* the sequence of its characters.                                         *)
(***************************************************************************)
\* The most data events followed in one run.
MaxChunks == 3

Whitespace == {" ", "\n"}

\* What the script prints on stdout (the JSON line) and on stderr (logs).
StdoutChunks == {<<"{">>, <<"}", "\n">>, <<" ">>, <<"\n", "{">>}

StderrChunks == {<<"W">>, <<"E", "\n">>, <<" ">>}

RECURSIVE TrimStart(_)
TrimStart(str) ==
    IF str # <<>> /\ Head(str) \in Whitespace THEN TrimStart(Tail(str)) ELSE str

RECURSIVE TrimEnd(_)
TrimEnd(str) ==
    IF str # <<>> /\ str[Len(str)] \in Whitespace
        THEN TrimEnd(SubSeq(str, 1, Len(str) - 1))
        ELSE str

\* String.prototype.trim
Trim(str) == TrimEnd(TrimStart(str))

ResolvedWith(str) == [st |-> "resolved", value |-> str]

RejectedWith(str) == [st |-> "rejected", value |-> str]

\* reject(`Failed to spawn Python: ${err.message}`)
SpawnRejection == RejectedWith(<<"Failed to spawn Python: ", "spawn python3 ENOENT">>)

\* reject(`Python exited with code ${code}\n${errors}`)
ExitRejection(code, errs) ==
    RejectedWith(<<"Python exited with code ", CodeText(code), "\n">> \o errs)

\* The close handler's call: reject unless the code is 0.
CloseSettlement(code, outp, errs) ==
    IF code # 0 THEN ExitRejection(code, errs) ELSE ResolvedWith(Trim(outp))

\* Any resolve/reject call replaces the promise's state.
SettleRunAlways(cur, new) == new

\* resolve and reject do nothing on a promise already settled.
SettleRun(cur, new) == IF cur.st = "pending" THEN new ELSE cur

RunEvent(ev, code) == [ev |-> ev, code |-> code]

\* runPython has called spawn: the child runs, or it could not be started.
RunInit ==
    /\ SchedInit
    /\ routeIn = NoRun
    /\ routeOut = <<>>
    /\ runProc \in SpawnOutcomes
    /\ output = <<>>
    /\ errors = <<>>
    /\ stdoutLog = <<>>
    /\ stderrLog = <<>>
    /\ runPromise = PendingPromise
    /\ runEvents = <<>>
    /\ CorsIdle
    /\ BootIdle
    /\ users = <<>>
    /\ AuthIdle
    /\ ReportIdle
    /\ UploadIdle

\* py.stdout.on("data")
StdoutData(chunk) ==
    /\ runProc = "alive"
    /\ Len(stdoutLog) + Len(stderrLog) < MaxChunks
    /\ stdoutLog' = Append(stdoutLog, chunk)
    /\ output' = output \o chunk
    /\ UNCHANGED <<runProc, errors, stderrLog, runPromise, runEvents, schedVars, routeVars, restOfRun>>

\* A stderr handler that appends to output as well.
StderrDataMixed(chunk) ==
    /\ runProc = "alive"
    /\ Len(stdoutLog) + Len(stderrLog) < MaxChunks
    /\ stderrLog' = Append(stderrLog, chunk)
    /\ errors' = errors \o chunk
    /\ output' = output \o chunk
    /\ UNCHANGED <<runProc, stdoutLog, runPromise, runEvents, schedVars, routeVars, restOfRun>>

\* py.stderr.on("data")
StderrData(chunk) ==
    /\ runProc = "alive"
    /\ Len(stdoutLog) + Len(stderrLog) < MaxChunks
    /\ stderrLog' = Append(stderrLog, chunk)
    /\ errors' = errors \o chunk
    /\ UNCHANGED <<runProc, output, stdoutLog, runPromise, runEvents, schedVars, routeVars, restOfRun>>

\* py.on("error"): the child could not be spawned.
RunError ==
    /\ runProc = "nospawn"
    /\ runProc' = "errored"
    /\ runEvents' = Append(runEvents, RunEvent("error", SpawnFailCode))
    /\ runPromise' = SettleRun(runPromise, SpawnRejection)
    /\ UNCHANGED <<output, errors, stdoutLog, stderrLog, schedVars, routeVars, restOfRun>>

\* py.on("close"): after the child ended and its streams closed, or after
\* the error event of a failed spawn.
RunClose(code) ==
    /\ \/ runProc = "alive" /\ code \in ExitCodes
       \/ runProc = "errored" /\ code = SpawnFailCode
    /\ runProc' = "closed"
    /\ runEvents' = Append(runEvents, RunEvent("close", code))
    /\ runPromise' = SettleRun(runPromise, CloseSettlement(code, output, errors))
    /\ UNCHANGED <<output, errors, stdoutLog, stderrLog, schedVars, routeVars, restOfRun>>

RunNext ==
    \/ \E chunk \in StdoutChunks : StdoutData(chunk)
    \/ \E chunk \in StderrChunks : StderrData(chunk)
    \/ RunError
    \/ \E code \in ExitCodes \cup {SpawnFailCode} : RunClose(code)

RunSpec == RunInit /\ [][RunNext]_vars

(***************************************************************************)
(* server.js: the CORS allow-list and the cors middleware's origin         *)
(* callback.  A string is the sequence of its characters; the scheme and   *)
(* host of a URL count as one character.                                   *)
(***************************************************************************)
\* The most requests followed through the cors middleware.
MaxCorsRequests == 2

DefaultUrl == <<"http://localhost:5173">>

UrlHosts == {"http://localhost:5173", "https://a.example", "https://b.example"}

\* The values of FRONTEND_URL.
EnvValues ==
    { NotSet,
      <<"https://a.example">>,
      <<"https://a.example", "/">>,
      <<" ", "https://a.example", "/", " ", ",", "https://b.example">>,
      <<"https://a.example", "/", "/">>,
      <<"https://a.example", ",", ",", "https://b.example", "/">>,
      <<",">>,
      <<"not-a-url">>,
      <<"https://a.example", ",", "not-a-url", "/">> }

\* The values of a request's Origin header.
OriginValues ==
    { NotSet, <<>>, <<"null">>,
      <<"https://a.example">>, <<"https://a.example", "/">>,
      <<"https://a.example", "/", "/">>,
      <<"https://b.example">>, <<"https://b.example", "/">>,
      <<"http://localhost:5173">>, <<"http://localhost:5173", "/">>,
      <<"https://c.example">> }

\* process.env.FRONTEND_URL || "http://localhost:5173"
EnvOrDefault(v) == IF v = NotSet \/ v = <<>> THEN DefaultUrl ELSE v

\* The index of the first comma of str, 0 if it has none.
FirstComma(str) ==
    IF \E i \in 1..Len(str) : str[i] = ","
        THEN CHOOSE i \in 1..Len(str) : str[i] = "," /\ \A k \in 1..(i - 1) : str[k] # ","
        ELSE 0

\* String.prototype.split(",")
RECURSIVE SplitComma(_)
SplitComma(str) ==
    IF FirstComma(str) = 0 THEN <<str>>
    ELSE <<SubSeq(str, 1, FirstComma(str) - 1)>>
            \o SplitComma(SubSeq(str, FirstComma(str) + 1, Len(str)))

\* replace(/\/$/, ""): one slash at the end of the string is removed.
StripSlash(str) ==
    IF str # <<>> /\ str[Len(str)] = "/" THEN SubSeq(str, 1, Len(str) - 1) ELSE str

\* server.js 34-42: split, trim, strip one slash, drop empty entries, and
\* fall back to the default when nothing is left.
ParseOrigins(v) ==
    LET parts == SplitComma(EnvOrDefault(v))
        cleaned == [i \in 1..Len(parts) |-> StripSlash(Trim(parts[i]))]
        kept == SelectSeq(cleaned, LAMBDA o : o # <<>>)
    IN  IF Len(kept) = 0 THEN <<DefaultUrl>> ELSE kept

\* new URL(origin) does not throw.
IsValidUrl(str) ==
    /\ str # <<>>
    /\ Head(str) \in UrlHosts
    /\ \A i \in 2..Len(str) : str[i] = "/"

\* server.js 44-58: the entries that make the process exit.
InvalidOrigins(list) == SelectSeq(list, LAMBDA o : ~IsValidUrl(o))

\* callback(err, allow)
Callback(err, allow) == [err |-> err, allow |-> allow]

\* The origin callback without normalisation, raising an Error on a miss.
CorsDecisionStrict(origin, list) ==
    IF origin = NotSet \/ origin = <<>> THEN Callback("", TRUE)
    ELSE IF origin \in Range(list) THEN Callback("", TRUE)
    ELSE Callback("Not allowed by CORS", FALSE)

\* corsOptions.origin
CorsDecision(origin, list) ==
    IF origin = NotSet \/ origin = <<>> THEN Callback("", TRUE)
    ELSE IF StripSlash(origin) \in Range(list) THEN Callback("", TRUE)
    ELSE Callback("", FALSE)

\* The server runs: its FRONTEND_URL passed the validation at load.
CorsInit ==
    /\ SchedInit
    /\ routeIn = NoRun
    /\ routeOut = <<>>
    /\ RunIdle
    /\ env \in {v \in EnvValues : InvalidOrigins(ParseOrigins(v)) = <<>>}
    /\ allowedOrigins = ParseOrigins(env)
    /\ corsLog = <<>>
    /\ BootIdle
    /\ users = <<>>
    /\ AuthIdle
    /\ ReportIdle
    /\ UploadIdle

\* A request passes the cors middleware.
CorsRequest(origin) ==
    /\ Len(corsLog) < MaxCorsRequests
    /\ corsLog' = Append(corsLog,
            [origin |-> origin, decision |-> CorsDecision(origin, allowedOrigins)])
    /\ UNCHANGED <<env, allowedOrigins, schedVars, routeVars, restOfCors>>

CorsNext == \E origin \in OriginValues : CorsRequest(origin)

CorsSpec == CorsInit /\ [][CorsNext]_vars

(***************************************************************************)
(* server.js: the start-up, from loading the module to app.listen.         *)
(***************************************************************************)
\* The password field of a seed user, whatever the data file holds.
SeedPassword == [kind |-> "seed", of |-> ""]

\* new User({ email, password, patientId, ... }) with a generated patientId.
UserDoc(email, password) == [email |-> email, password |-> password, patientId |-> "PID"]

\* A document without patientId: a seed user, or an account from before
\* patientIds were generated at signup.
OlderDoc(email, password) == [email |-> email, password |-> password, patientId |-> ""]

\* data/users.js
Seeds == <<OlderDoc("seed1@x", SeedPassword), OlderDoc("seed2@x", SeedPassword)>>

\* User.findOne({ email }): the first document with that email, 0 if none.
FindUser(coll, email) ==
    IF \E i \in 1..Len(coll) : coll[i].email = email
        THEN CHOOSE i \in 1..Len(coll) :
                coll[i].email = email /\ \A k \in 1..(i - 1) : coll[k].email # email
        ELSE 0

\* The collection when the process starts: what earlier runs left.
StoredAtBoot == {<<>>, <<Seeds[1]>>, <<Seeds[2], Seeds[1]>>}

BootInit ==
    /\ SchedInit
    /\ routeIn = NoRun
    /\ routeOut = <<>>
    /\ RunIdle
    /\ env \in EnvValues
    /\ allowedOrigins = <<>>
    /\ corsLog = <<>>
    /\ bootPc = "start"
    /\ dbConn = "none"
    /\ seedIdx = 0
    /\ listening = FALSE
    /\ exitCode = NotExited
    /\ closing = "no"
    /\ forceTimer = FALSE
    /\ otherPc = "seeding"
    /\ otherIdx = 1
    /\ users \in StoredAtBoot
    /\ uniqueEmail \in BOOLEAN
    /\ jwtSecret = TRUE
    /\ areq = [c \in Clients |-> NoRequest]
    /\ authReply = NoReply
    /\ ReportIdle
    /\ UploadIdle

\* process.exit(code)
Exit(code) ==
    /\ bootPc' = "exited"
    /\ exitCode' = code

\* The module body without the check of the origins.
BootLoadUnchecked ==
    /\ bootPc = "start"
    /\ allowedOrigins' = ParseOrigins(env)
    /\ bootPc' = "connecting"
    /\ dbConn' = "connecting"
    /\ UNCHANGED <<exitCode, env, corsLog, seedIdx, listening, users, closing, forceTimer, otherVars, restOfBoot>>

\* The module body runs: the allow-list is computed and checked, then
\* mongoose.connect is called.
BootLoad ==
    /\ bootPc = "start"
    /\ allowedOrigins' = ParseOrigins(env)
    /\ IF InvalidOrigins(ParseOrigins(env)) # <<>>
       THEN /\ Exit(1)
            /\ UNCHANGED dbConn
       ELSE /\ bootPc' = "connecting"
            /\ dbConn' = "connecting"
            /\ UNCHANGED exitCode
    /\ UNCHANGED <<env, corsLog, seedIdx, listening, users, closing, forceTimer, otherVars, restOfBoot>>

\* mongoose.connect resolves: the then-callback starts the seed loop.
BootConnected ==
    /\ bootPc = "connecting"
    /\ dbConn' = "connected"
    /\ bootPc' = "seeding"
    /\ seedIdx' = 1
    /\ UNCHANGED <<listening, exitCode, users, corsVars, closing, forceTimer, otherVars, restOfBoot>>

\* mongoose.connect rejects: the catch-callback exits.
BootConnectFailed ==
    /\ bootPc = "connecting"
    /\ dbConn' = "failed"
    /\ Exit(1)
    /\ UNCHANGED <<seedIdx, listening, users, corsVars, closing, forceTimer, otherVars, restOfBoot>>

\* The seed loop: User.findOne settles.  A database error ends in the
\* catch-callback; a seed that is stored is skipped; else User.create is
\* called and awaited.
BootSeedFound(dbOk) ==
    /\ bootPc = "seeding"
    /\ seedIdx <= Len(Seeds)
    /\ IF ~dbOk
       THEN /\ Exit(1)
            /\ UNCHANGED seedIdx
       ELSE IF FindUser(users, Seeds[seedIdx].email) # 0
       THEN /\ seedIdx' = seedIdx + 1
            /\ UNCHANGED <<bootPc, exitCode>>
       ELSE /\ bootPc' = "creating"
            /\ UNCHANGED <<seedIdx, exitCode>>
    /\ UNCHANGED <<users, dbConn, listening, corsVars, closing, forceTimer, otherVars, restOfBoot>>

\* The seed loop: User.create settles.  The document is inserted whatever
\* was stored since findOne answered, unless the insert fails (a database
\* error, or a duplicate key under a unique index).
BootSeedCreated(dbOk) ==
    /\ bootPc = "creating"
    /\ IF ~dbOk \/ (uniqueEmail /\ FindUser(users, Seeds[seedIdx].email) # 0)
       THEN /\ Exit(1)
            /\ UNCHANGED <<users, seedIdx>>
       ELSE /\ users' = Append(users, Seeds[seedIdx])
            /\ seedIdx' = seedIdx + 1
            /\ bootPc' = "seeding"
            /\ UNCHANGED exitCode
    /\ UNCHANGED <<dbConn, listening, corsVars, closing, forceTimer, otherVars, restOfBoot>>

\* The seed loop of another process that shares the database: its
\* User.findOne settles.  A database error ends in its catch-callback, which
\* exits that process; a seed that is stored is skipped; else User.create
\* is called and awaited.
OtherSeedFound(dbOk) ==
    /\ otherPc = "seeding"
    /\ otherIdx <= Len(Seeds)
    /\ IF ~dbOk
       THEN /\ otherPc' = "exited"
            /\ UNCHANGED otherIdx
       ELSE IF FindUser(users, Seeds[otherIdx].email) # 0
       THEN /\ otherIdx' = otherIdx + 1
            /\ UNCHANGED otherPc
       ELSE /\ otherPc' = "creating"
            /\ UNCHANGED otherIdx
    /\ UNCHANGED <<users, bootPc, dbConn, seedIdx, listening, exitCode, closing, forceTimer,
                   corsVars, restOfBoot>>

\* The seed loop of the other process: its User.create settles.  It inserts
\* on what its findOne answered, whatever was stored since, unless the
\* insert fails (a database error, or a duplicate key under a unique
\* index): then nothing is inserted and its catch-callback exits that
\* process.
OtherSeedCreated(dbOk) ==
    /\ otherPc = "creating"
    /\ IF ~dbOk \/ (uniqueEmail /\ FindUser(users, Seeds[otherIdx].email) # 0)
       THEN /\ otherPc' = "exited"
            /\ UNCHANGED <<users, otherIdx>>
       ELSE /\ users' = Append(users, Seeds[otherIdx])
            /\ otherIdx' = otherIdx + 1
            /\ otherPc' = "seeding"
    /\ UNCHANGED <<bootPc, dbConn, seedIdx, listening, exitCode, closing, forceTimer,
                   corsVars, restOfBoot>>

\* The loop is over: app.listen.
BootListen ==
    /\ bootPc = "seeding"
    /\ seedIdx > Len(Seeds)
    /\ listening' = TRUE
    /\ bootPc' = "listening"
    /\ UNCHANGED <<dbConn, seedIdx, exitCode, users, corsVars, closing, forceTimer, otherVars, restOfBoot>>

\* The process runs and the event loop can call a handler: between the end
\* of the seed loop and app.listen there is no await.
CanRunCallback ==
    /\ bootPc \in {"connecting", "seeding", "creating", "listening"}
    /\ ~(bootPc = "seeding" /\ seedIdx > Len(Seeds))

\* gracefulShutdown(signal), called by the handlers of SIGTERM, SIGINT,
\* uncaughtException and unhandledRejection: server.close when app.listen
\* has assigned `server`, and a 10 s timer in every case.
GracefulShutdown ==
    /\ CanRunCallback
    /\ forceTimer' = TRUE
    /\ IF bootPc = "listening" /\ closing = "no"
       THEN /\ closing' = "server"
            /\ listening' = FALSE
       ELSE UNCHANGED <<closing, listening>>
    /\ UNCHANGED <<bootPc, dbConn, seedIdx, exitCode, users, corsVars, otherVars, restOfBoot>>

\* The callback of server.close: mongoose.connection.close is called.
ServerClosed ==
    /\ bootPc = "listening"
    /\ closing = "server"
    /\ closing' = "db"
    /\ UNCHANGED <<bootPc, dbConn, seedIdx, listening, exitCode, forceTimer, users,
                   corsVars, otherVars, restOfBoot>>

\* The callback of mongoose.connection.close: process.exit(0).
DbClosed ==
    /\ bootPc = "listening"
    /\ closing = "db"
    /\ dbConn' = "closed"
    /\ Exit(0)
    /\ UNCHANGED <<seedIdx, listening, closing, forceTimer, users, corsVars, otherVars, restOfBoot>>

\* The 10 s timer fires: "Force shutdown", process.exit(1).
ForceExit ==
    /\ CanRunCallback
    /\ forceTimer
    /\ Exit(1)
    /\ listening' = FALSE
    /\ UNCHANGED <<dbConn, seedIdx, closing, forceTimer, users, corsVars, otherVars, restOfBoot>>

BootNext ==
    \/ BootLoad
    \/ BootConnected
    \/ BootConnectFailed
    \/ \E dbOk \in BOOLEAN : BootSeedFound(dbOk)
    \/ \E dbOk \in BOOLEAN : BootSeedCreated(dbOk)
    \/ \E dbOk \in BOOLEAN : OtherSeedFound(dbOk)
    \/ \E dbOk \in BOOLEAN : OtherSeedCreated(dbOk)
    \/ BootListen
    \/ GracefulShutdown
    \/ ServerClosed
    \/ DbClosed
    \/ ForceExit

BootSpec == BootInit /\ [][BootNext]_vars

(***************************************************************************)
(* routes/auth.js and routes/updatePassword.js: signup, login and          *)
(* update-password, each handler cut at its awaits.  A step that sends a   *)
(* response leaves it in authReply and frees the client.                   *)
(***************************************************************************)
\* The most documents signup adds to the User collection.
MaxUsers == 2

RegisteredEmail == "ann@x"

\* req.body of a signup: email, password, confirmPassword ("" when missing).
SignupBodies ==
    { <<RegisteredEmail, "secret1", "secret1">>,
      <<RegisteredEmail, "secret2", "secret2">>,
      <<"", "secret1", "secret1">>,
      <<RegisteredEmail, "secret1", "">>,
      <<RegisteredEmail, "secret1", "secret2">>,
      <<RegisteredEmail, "short", "short">>,
      <<RegisteredEmail, "short", "secret1">> }

\* req.body of a login: email, password.
LoginBodies ==
    { <<RegisteredEmail, "secret1">>, <<RegisteredEmail, "secret2">>,
      <<RegisteredEmail, "">>, <<"", "secret1">> }

\* req.body of an update-password: email, currentPassword, newPassword.
UpdateBodies ==
    { <<RegisteredEmail, cur, new>> :
        cur \in {Plain("secret1"), Plain("secret2"), Hashed("secret1"), Hashed("secret2")},
        new \in {"secret1", "secret2"} }

\* The Authorization header: absent, or a token the server signed.
JwtValues == {"none", "valid"}

\* jwt.sign({ email, ... }, JWT_SECRET)
Token(email) == <<"jwt", email>>

NoToken == <<>>

\* bcrypt.compare(password, stored): false for a stored value that is not a
\* bcrypt hash.
BcryptCompare(password, stored) == stored.kind = "hash" /\ stored.of = password

\* res.status(code).json(...): the response is sent, the handler returns.
Respond(c, req, code, message, token, touched) ==
    /\ areq' = [areq EXCEPT ![c] = NoRequest]
    /\ authReply' = AuthReply(req, code, message, token, touched)

\* The handler waits at its next await.
Await(c, req) ==
    /\ areq' = [areq EXCEPT ![c] = req]
    /\ authReply' = NoReply

AuthInit ==
    /\ SchedInit
    /\ routeIn = NoRun
    /\ routeOut = <<>>
    /\ RunIdle
    /\ CorsIdle
    /\ BootIdle
    /\ users \in {<<>>, <<OlderDoc(RegisteredEmail, Hashed("secret1"))>>}
    /\ uniqueEmail \in BOOLEAN
    /\ jwtSecret \in BOOLEAN
    /\ areq = [c \in Clients |-> NoRequest]
    /\ authReply = NoReply
    /\ ReportIdle
    /\ UploadIdle

\* POST /api/auth/signup up to `await User.findOne`.
SignupArrive(c, body) ==
    /\ areq[c] = NoRequest
    /\ LET req == AuthRequest("signup", body[1], body[2], body[3], NoPassword, "",
                              "none", "find", 0, NoPassword, "none")
       IN  IF body[1] = "" \/ body[2] = "" \/ body[3] = ""
               THEN Respond(c, req, 400, "All fields are required", NoToken, "none")
           ELSE IF body[2] # body[3]
               THEN Respond(c, req, 400, "Passwords do not match", NoToken, "none")
           ELSE IF Len(body[2]) < 6
               THEN Respond(c, req, 400, "Password must be at least 6 characters",
                            NoToken, "none")
           ELSE Await(c, req)
    /\ UNCHANGED <<users, uniqueEmail, jwtSecret, restOfAuth>>

\* findOne settles; then bcrypt.hash and generateUniquePatientId are awaited.
SignupFound(c, dbOk) ==
    /\ areq[c].route = "signup" /\ areq[c].pc = "find"
    /\ IF ~dbOk
           THEN Respond(c, areq[c], 500, "Server error during signup", NoToken, "none")
       ELSE IF FindUser(users, areq[c].email) # 0
           THEN Respond(c, areq[c], 409, "Email already registered. Please login.",
                        NoToken, "read")
       ELSE Await(c, [areq[c] EXCEPT !.pc = "save", !.touched = "read"])
    /\ UNCHANGED <<users, uniqueEmail, jwtSecret, restOfAuth>>

\* newUser.save() settles: the document is inserted, or the insert fails (a
\* database error, or a duplicate key under a unique index).  After the
\* insert jwt.sign runs, which throws into the catch block when JWT_SECRET
\* is not set.
SignupSaved(c, dbOk) ==
    /\ areq[c].route = "signup" /\ areq[c].pc = "save"
    /\ Len(SelectSeq(users, LAMBDA u : u.password # SeedPassword)) < MaxUsers
    /\ IF ~dbOk \/ (uniqueEmail /\ FindUser(users, areq[c].email) # 0)
           THEN /\ Respond(c, areq[c], 500, "Server error during signup", NoToken, "read")
                /\ UNCHANGED users
           ELSE /\ users' = Append(users, UserDoc(areq[c].email, Hashed(areq[c].password)))
                /\ IF jwtSecret
                       THEN Respond(c, areq[c], 201, "Account created successfully",
                                    Token(areq[c].email), "written")
                       ELSE Respond(c, areq[c], 500, "Server error during signup",
                                    NoToken, "written")
    /\ UNCHANGED <<uniqueEmail, jwtSecret, restOfAuth>>

\* POST /api/auth/login up to `await User.findOne`.
LoginArrive(c, body) ==
    /\ areq[c] = NoRequest
    /\ LET req == AuthRequest("login", body[1], body[2], "", NoPassword, "",
                              "none", "find", 0, NoPassword, "none")
       IN  IF body[1] = "" \/ body[2] = ""
               THEN Respond(c, req, 400, "Email and password are required", NoToken, "none")
               ELSE Await(c, req)
    /\ UNCHANGED <<users, uniqueEmail, jwtSecret, restOfAuth>>

\* findOne settles; bcrypt.compare is called on the document it returned.
LoginFound(c, dbOk) ==
    /\ areq[c].route = "login" /\ areq[c].pc = "find"
    /\ IF ~dbOk
           THEN Respond(c, areq[c], 500, "Server error during login", NoToken, "none")
       ELSE IF FindUser(users, areq[c].email) = 0
           THEN Respond(c, areq[c], 404, "Email not found", NoToken, "read")
       ELSE Await(c, [areq[c] EXCEPT !.pc = "compare", !.touched = "read",
                                     !.found = FindUser(users, areq[c].email),
                                     !.snap = users[FindUser(users, areq[c].email)].password,
                                     !.pid = users[FindUser(users, areq[c].email)].patientId])
    /\ UNCHANGED <<users, uniqueEmail, jwtSecret, restOfAuth>>

\* As LoginCompared, but the token is signed whatever bcrypt.compare says.
LoginComparedAnyway(c) ==
    /\ areq[c].route = "login" /\ areq[c].pc = "compare"
    /\ Respond(c, areq[c], 200, "Login successful", Token(areq[c].email), "read")
    /\ UNCHANGED <<users, uniqueEmail, jwtSecret, restOfAuth>>

\* jwt.sign and res.json at the end of login: jwt.sign throws into the catch
\* block when JWT_SECRET is not set.
LoginRespond(c, touched) ==
    IF jwtSecret
        THEN Respond(c, areq[c], 200, "Login successful", Token(areq[c].email), touched)
        ELSE Respond(c, areq[c], 500, "Server error during login", NoToken, touched)

\* bcrypt.compare settles.  A document that was read without patientId gets
\* one first: generateUniquePatientId is awaited.
LoginCompared(c) ==
    /\ areq[c].route = "login" /\ areq[c].pc = "compare"
    /\ IF ~BcryptCompare(areq[c].password, areq[c].snap)
           THEN Respond(c, areq[c], 400, "Incorrect password", NoToken, "read")
       ELSE IF areq[c].pid = ""
           THEN Await(c, [areq[c] EXCEPT !.pc = "genid"])
       ELSE LoginRespond(c, "read")
    /\ UNCHANGED <<users, uniqueEmail, jwtSecret, restOfAuth>>

\* The id generateUniquePatientId resolves with for a request of client c.
NewPatientId(c) == "PID-" \o c

\* generateUniquePatientId settles: the id is assigned to the document read
\* by findOne and user.save() is awaited; a rejection ends in the catch block.
LoginGenerated(c, ok) ==
    /\ areq[c].route = "login" /\ areq[c].pc = "genid"
    /\ IF ok
           THEN Await(c, [areq[c] EXCEPT !.pc = "savepid", !.pid = NewPatientId(c)])
           ELSE Respond(c, areq[c], 500, "Server error during login", NoToken, "read")
    /\ UNCHANGED <<users, uniqueEmail, jwtSecret, restOfAuth>>

\* user.save() settles: the patientId of the document is written, then the
\* token is signed.
LoginPatientSaved(c, dbOk) ==
    /\ areq[c].route = "login" /\ areq[c].pc = "savepid"
    /\ IF dbOk
           THEN /\ users' = [users EXCEPT ![areq[c].found].patientId = areq[c].pid]
                /\ LoginRespond(c, "written")
           ELSE /\ Respond(c, areq[c], 500, "Server error during login", NoToken, "read")
                /\ UNCHANGED users
    /\ UNCHANGED <<uniqueEmail, jwtSecret, restOfAuth>>

\* POST /api/update-password up to `await User.findOne`: no middleware looks
\* at the Authorization header and nothing in the body is checked.
UpdateArrive(c, body, jwt) ==
    /\ areq[c] = NoRequest
    /\ Await(c, AuthRequest("update-password", body[1], "", "", body[2], body[3],
                            jwt, "find", 0, NoPassword, "none"))
    /\ UNCHANGED <<users, uniqueEmail, jwtSecret, restOfAuth>>

\* findOne settles; the stored password is compared with currentPassword as
\* strings, and newPassword is assigned to the document.
UpdateFound(c, dbOk) ==
    /\ areq[c].route = "update-password" /\ areq[c].pc = "find"
    /\ IF ~dbOk
           THEN Respond(c, areq[c], 500, "Server error while updating password",
                        NoToken, "none")
       ELSE IF FindUser(users, areq[c].email) = 0
           THEN Respond(c, areq[c], 404, "User not found", NoToken, "read")
       ELSE IF users[FindUser(users, areq[c].email)].password # areq[c].current
           THEN Respond(c, [areq[c] EXCEPT
                                !.snap = users[FindUser(users, areq[c].email)].password],
                        400, "Current password is incorrect", NoToken, "read")
       ELSE Await(c, [areq[c] EXCEPT !.pc = "save", !.touched = "read",
                                     !.found = FindUser(users, areq[c].email),
                                     !.snap = users[FindUser(users, areq[c].email)].password])
    /\ UNCHANGED <<users, uniqueEmail, jwtSecret, restOfAuth>>

\* user.save() settles: the password field of the document is written.
UpdateSaved(c, dbOk) ==
    /\ areq[c].route = "update-password" /\ areq[c].pc = "save"
    /\ IF ~dbOk
           THEN /\ Respond(c, areq[c], 500, "Server error while updating password",
                           NoToken, "read")
                /\ UNCHANGED users
           ELSE /\ users' = [users EXCEPT ![areq[c].found].password = Plain(areq[c].new)]
                /\ Respond(c, areq[c], 200, "Password updated successfully!",
                           NoToken, "written")
    /\ UNCHANGED <<uniqueEmail, jwtSecret, restOfAuth>>

AuthNext ==
    \E c \in Clients :
        \/ \E body \in SignupBodies : SignupArrive(c, body)
        \/ \E dbOk \in BOOLEAN : SignupFound(c, dbOk)
        \/ \E dbOk \in BOOLEAN : SignupSaved(c, dbOk)
        \/ \E body \in LoginBodies : LoginArrive(c, body)
        \/ \E dbOk \in BOOLEAN : LoginFound(c, dbOk)
        \/ LoginCompared(c)
        \/ \E ok \in BOOLEAN : LoginGenerated(c, ok)
        \/ \E dbOk \in BOOLEAN : LoginPatientSaved(c, dbOk)
        \/ \E body \in UpdateBodies, jwt \in JwtValues : UpdateArrive(c, body, jwt)
        \/ \E dbOk \in BOOLEAN : UpdateFound(c, dbOk)
        \/ \E dbOk \in BOOLEAN : UpdateSaved(c, dbOk)

AuthSpec == AuthInit /\ [][AuthNext]_vars

(***************************************************************************)
(* The User collection from the start of the process on: the seed loop of  *)
(* server.js, then, once the server listens, signups from two clients.     *)
(***************************************************************************)
\* req.body of the signups followed here: a new email, the email of a seed
\* user, and a body that fails a check.
SeedSignupBodies ==
    { <<RegisteredEmail, "secret1", "secret1">>,
      <<RegisteredEmail, "secret2", "secret2">>,
      <<Seeds[1].email, "secret1", "secret1">>,
      <<RegisteredEmail, "short", "short">> }

UserInit ==
    /\ SchedInit
    /\ routeIn = NoRun
    /\ routeOut = <<>>
    /\ RunIdle
    /\ env \in EnvValues
    /\ allowedOrigins = <<>>
    /\ corsLog = <<>>
    /\ bootPc = "start"
    /\ dbConn = "none"
    /\ seedIdx = 0
    /\ listening = FALSE
    /\ exitCode = NotExited
    /\ closing = "no"
    /\ forceTimer = FALSE
    /\ otherPc = "seeding"
    /\ otherIdx = 1
    /\ users \in StoredAtBoot
    /\ uniqueEmail \in BOOLEAN
    /\ jwtSecret \in BOOLEAN
    /\ areq = [c \in Clients |-> NoRequest]
    /\ authReply = NoReply
    /\ ReportIdle
    /\ UploadIdle

\* Requests reach the routes only while the server listens; the ones in
\* flight go on until the process exits.
UserNext ==
    \/ BootNext
    \/ \E c \in Clients, body \in SeedSignupBodies : listening /\ SignupArrive(c, body)
    \/ \E c \in Clients, dbOk \in BOOLEAN : bootPc = "listening" /\ SignupFound(c, dbOk)
    \/ \E c \in Clients, dbOk \in BOOLEAN : bootPc = "listening" /\ SignupSaved(c, dbOk)

UserSpec == UserInit /\ [][UserNext]_vars

(***************************************************************************)
(* The save-report route: the patient id of a new report is the highest    *)
(* one stored for the user's email plus one, read by findOne and written   *)
(* by create, two awaits later.                                            *)
(***************************************************************************)
\* The most documents followed in the PatientReport collection.
MaxReports == 3

ReportEmails == {"ann@x", "bob@x"}

\* req.body of a save-report: email and imagePath ("" when missing).
SaveBodies ==
    {<<e, "/uploads/a.png">> : e \in ReportEmails}
        \cup {<<"", "/uploads/a.png">>, <<"ann@x", "">>}

ReportDoc(email, patientId) == [userEmail |-> email, patientId |-> patientId]

\* The patient ids stored for an email.
IdsOf(coll, email) == {coll[i].patientId : i \in {k \in 1..Len(coll) : coll[k].userEmail = email}}

Max(S) == CHOOSE x \in S : \A y \in S : y <= x

\* findOne({ userEmail }).sort({ patientId: -1 }), then
\* lastRecord ? lastRecord.patientId + 1 : 0
NextPatientId(coll, email) ==
    IF IdsOf(coll, email) = {} THEN 0 ELSE Max(IdsOf(coll, email)) + 1

ReportInit ==
    /\ SchedInit
    /\ routeIn = NoRun
    /\ routeOut = <<>>
    /\ RunIdle /\ CorsIdle /\ BootIdle /\ users = <<>> /\ AuthIdle
    /\ UploadIdle
    /\ reports = <<>>
    /\ sreq = [c \in Clients |-> NoSave]
    /\ saveReply = NoSaveReply

\* POST /api/save-report up to `await PatientReport.findOne`: the two
\* checks of the body, and the image read whose failure is only logged.
SaveArrive(c, body) ==
    /\ sreq[c] = NoSave
    /\ IF body[1] = ""
           THEN /\ saveReply' = SaveReply(body[1], 400, "Email is required", 0)
                /\ UNCHANGED sreq
       ELSE IF body[2] = ""
           THEN /\ saveReply' = SaveReply(body[1], 400, "Image path missing", 0)
                /\ UNCHANGED sreq
       ELSE /\ sreq' = [sreq EXCEPT ![c] = SaveRequest(body[1], "find", 0)]
            /\ saveReply' = NoSaveReply
    /\ UNCHANGED <<reports, restOfReports>>

\* findOne settles: nextPatientId is computed; create is called.
SaveFound(c, dbOk) ==
    /\ sreq[c].pc = "find"
    /\ IF dbOk
           THEN /\ sreq' = [sreq EXCEPT ![c] =
                        SaveRequest(sreq[c].email, "create",
                                    NextPatientId(reports, sreq[c].email))]
                /\ saveReply' = NoSaveReply
           ELSE /\ sreq' = [sreq EXCEPT ![c] = NoSave]
                /\ saveReply' = SaveReply(sreq[c].email, 500,
                                          "Server error while saving report", 0)
    /\ UNCHANGED <<reports, restOfReports>>

\* create settles: the report is stored under the id computed before.
SaveCreated(c, dbOk) ==
    /\ sreq[c].pc = "create"
    /\ Len(reports) < MaxReports
    /\ sreq' = [sreq EXCEPT ![c] = NoSave]
    /\ IF dbOk
           THEN /\ reports' = Append(reports, ReportDoc(sreq[c].email, sreq[c].next))
                /\ saveReply' = SaveReply(sreq[c].email, 200,
                                          "Report saved successfully", sreq[c].next)
           ELSE /\ saveReply' = SaveReply(sreq[c].email, 500,
                                          "Server error while saving report", 0)
                /\ UNCHANGED reports
    /\ UNCHANGED restOfReports

ReportNext ==
    \E c \in Clients :
        \/ \E body \in SaveBodies : SaveArrive(c, body)
        \/ \E dbOk \in BOOLEAN : SaveFound(c, dbOk)
        \/ \E dbOk \in BOOLEAN : SaveCreated(c, dbOk)

ReportSpec == ReportInit /\ [][ReportNext]_vars

(***************************************************************************)
(* One predict request through upload.single("ecgImage"), the route        *)
(* handler and the global error handler.  The type of a MIME type          *)
(* ("image/", "application/") counts as one character.                     *)
(***************************************************************************)
\* limits.fileSize
FileSizeLimit == 10 * 1024 * 1024

FileSizes == {1, FileSizeLimit, FileSizeLimit + 1}

\* path.extname(file.originalname)
Extensions ==
    { <<".", "j", "p", "g">>, <<".", "J", "P", "G">>, <<".", "j", "p", "e", "g">>,
      <<".", "p", "n", "g">>, <<".", "g", "i", "f">>, <<".", "a", "p", "n", "g">>,
      <<".", "p", "d", "f">>, <<>> }

\* file.mimetype
MimeTypes ==
    { <<"image/", "j", "p", "e", "g">>, <<"image/", "p", "n", "g">>,
      <<"image/", "g", "i", "f">>, <<"image/", "a", "p", "n", "g">>,
      <<"application/", "p", "d", "f">> }

Uploads == {File(sz, e, m) : sz \in FileSizes, e \in Extensions, m \in MimeTypes} \cup {NoFile}

LowerChar(ch) ==
    CASE ch = "J" -> "j"
      [] ch = "P" -> "p"
      [] ch = "G" -> "g"
      [] OTHER -> ch

\* String.prototype.toLowerCase
ToLowerCase(str) == [i \in 1..Len(str) |-> LowerChar(str[i])]

\* The alternatives of /jpeg|jpg|png|gif/
AllowedTypes ==
    {<<"j", "p", "e", "g">>, <<"j", "p", "g">>, <<"p", "n", "g">>, <<"g", "i", "f">>}

\* str has pat as a substring.
Contains(str, pat) ==
    \E i \in 1..(Len(str) - Len(pat) + 1) : SubSeq(str, i, i + Len(pat) - 1) = pat

\* allowedTypes.test(str): the pattern is not anchored.
RegexTest(str) == \E pat \in AllowedTypes : Contains(str, pat)

\* fileFilter calls cb(null, true).
FileFilter(file) == RegexTest(ToLowerCase(file.ext)) /\ RegexTest(file.mime)

UploadInit ==
    /\ SchedInit
    /\ routeIn = NoRun
    /\ routeOut = <<>>
    /\ RunIdle /\ CorsIdle /\ BootIdle /\ users = <<>> /\ AuthIdle
    /\ ReportIdle
    /\ upload \in Uploads
    /\ uploadPc = "multer"
    /\ uploadReply = NoErrorReply

\* upload.single("ecgImage"): the filter is asked when the file part
\* starts, the size limit is met while it is written; either error goes to
\* the global error handler, which answers.
Multer ==
    /\ uploadPc = "multer"
    /\ IF upload = NoFile
           THEN uploadPc' = "handler" /\ UNCHANGED uploadReply
       ELSE IF ~FileFilter(upload)
           THEN /\ uploadPc' = "failed"
                /\ uploadReply' = ErrorReply(500, "Internal server error")
       ELSE IF upload.size > FileSizeLimit
           THEN /\ uploadPc' = "failed"
                /\ uploadReply' = ErrorReply(400, "File too large. Max 10MB.")
       ELSE uploadPc' = "handler" /\ UNCHANGED uploadReply
    /\ UNCHANGED <<upload, schedVars, routeVars, runVars, corsVars, bootVars, users,
                   authVars, reportVars>>

\* The route handler runs with req.file as multer left it.
UploadHandled(file) ==
    /\ uploadPc = "handler"
    /\ (file = "none") <=> (upload = NoFile)
    /\ Request(1, file)

UploadNext ==
    \/ Multer
    \/ \E file \in {"none", "unreadable", "ok"} : UploadHandled(file)
    \/ PythonError(1)
    \/ \E code \in ExitCodes \cup {SpawnFailCode}, out \in SchedOutputs, errs \in StderrTexts :
          PythonClose(1, code, out, errs)

UploadSpec == UploadInit /\ [][UploadNext]_vars

(***************************************************************************)
(* Properties of the scheduler.                                            *)
(***************************************************************************)
Pos(q, j) == CHOOSE i \in 1..Len(q) : q[i] = j

Terminal == {"Succeeded", "Failed"}

\* What the child process of j did, as runPython reports it.
OwnRun(j) ==
    IF proc[j].st = "errored" \/ (proc[j].st = "closed" /\ proc[j].code = SpawnFailCode)
    THEN ErrorResult
    ELSE CloseResult(proc[j].code, proc[j].out, proc[j].errs)

\* C1: at any moment at most Concurrency (2) Python subprocesses exist
\* (spawned and not yet closed), and p-queue never counts more than 2 tasks
\* as pending, however many requests have arrived.
C1_BoundedRunning ==
    /\ Cardinality(RunningProcs) <= Concurrency
    /\ pending <= Concurrency

\* A burst: both slots hold a live subprocess and two more jobs wait.
C1_Witness ==
    /\ Cardinality(RunningProcs) = Concurrency
    /\ Len(queue) >= 2

\* C2: jobs start in the order of their mlQueue.add calls: whenever a job is
\* still Queued, every job that has left the queue was enqueued before it.
C2_FifoStart ==
    \A j \in Range(enqueued), k \in Range(enqueued) :
        (JobState(k) = "Queued" /\ JobState(j) # "Queued")
            => Pos(enqueued, j) < Pos(enqueued, k)

\* A job that had to wait has started while a later one still waits, and a
\* job enqueued after a still running one has already finished.
C2_Witness ==
    \E j \in Range(enqueued), k \in Range(enqueued), r \in Range(enqueued) :
        /\ Pos(enqueued, j) > Concurrency
        /\ JobState(j) = "Running"
        /\ JobState(k) = "Queued"
        /\ JobState(r) = "Running"
        /\ \E d \in Range(enqueued) :
              Pos(enqueued, d) > Pos(enqueued, r) /\ JobState(d) \in Terminal

\* The moves of a job's state that the state machine allows.
C3_Moves ==
    {<<"None", "Queued">>, <<"None", "Running">>, <<"Queued", "Running">>,
     <<"Running", "Succeeded">>, <<"Running", "Failed">>}

\* C3: a job's state changes only along None -> Queued -> Running ->
\* Succeeded | Failed (a job that mlQueue.add starts at once passes through
\* Queued within the add call): nothing leaves Succeeded or Failed, nothing
\* leaves Running except to them, nothing reaches them except from Running.
C3_Lifecycle ==
    [][\A j \in Jobs :
          JobState(j)' # JobState(j) => <<JobState(j), JobState(j)'>> \in C3_Moves]_vars

\* A job that waited has succeeded, and a job that failed on its error event
\* has since received its close event as well.
C3_Witness ==
    /\ \E j \in Range(enqueued) :
          Pos(enqueued, j) > Concurrency /\ JobState(j) = "Succeeded"
    /\ \E k \in Jobs :
          /\ JobState(k) = "Failed"
          /\ proc[k].st = "closed"
          /\ proc[k].code = SpawnFailCode

\* C4: a job that is Running eventually is Succeeded or Failed, also when
\* its subprocess never exits (a timeout ends it).
C4_RunningEnds ==
    \A j \in Jobs : (JobState(j) = "Running") ~> (JobState(j) \in Terminal)

\* C5: for each request at most one subprocess is ever spawned, whatever
\* became of it.
C5_NoRetry == \A j \in Jobs : spawns[j] <= 1

\* Three jobs have failed, one on its exit code, one on its spawn, one on
\* its output, each after a single spawn.
C5_Witness ==
    \E a \in Jobs, b \in Jobs, c \in Jobs :
        /\ JobState(a) = "Failed" /\ proc[a].st = "closed" /\ proc[a].code = 1
        /\ JobState(b) = "Failed" /\ proc[b].st = "errored"
        /\ JobState(c) = "Failed" /\ proc[c].st = "closed" /\ proc[c].code = 0
        /\ spawns[a] = 1 /\ spawns[b] = 1 /\ spawns[c] = 1

\* C6: whatever ended the other jobs, the slots counted as pending are
\* exactly the jobs that are Running, no job waits while a slot is free, and
\* a job that is over has sent the one response that follows from what its
\* own subprocess did.
C6_Isolation ==
    /\ pending = Cardinality({j \in Jobs : JobState(j) = "Running"})
    /\ queue # <<>> => pending = Concurrency
    /\ \A j \in Jobs :
          JobState(j) \in Terminal => replies[j] = <<PredictReply(OwnRun(j))>>

\* Two jobs crashed (one exited with 1, one could not be spawned), and two
\* jobs that ran beside or after them succeeded.
C6_Witness ==
    \E a \in Jobs, b \in Jobs, c \in Jobs, d \in Jobs :
        /\ JobState(a) = "Failed" /\ proc[a].st = "closed" /\ proc[a].code = 1
        /\ JobState(b) = "Failed" /\ proc[b].st \in {"errored", "closed"}
        /\ OwnRun(b) = ErrorResult
        /\ c # d
        /\ JobState(c) = "Succeeded" /\ JobState(d) = "Succeeded"
        /\ Pos(enqueued, d) > Concurrency

(***************************************************************************)
(* Properties of the route's answer.                                       *)
(***************************************************************************)
RECURSIVE SumSeq(_)
SumSeq(q) == IF q = <<>> THEN 0 ELSE Head(q) + SumSeq(Tail(q))

\* The index of the largest entry, the lowest index winning a tie.
ArgMax(q) ==
    CHOOSE i \in 1..Len(q) :
        /\ \A k \in 1..Len(q) : q[k] <= q[i]
        /\ \A k \in 1..(i - 1) : q[k] < q[i]

\* The fields of the output contract.
ContractFields ==
    {"predicted_class", "confidence", "probabilities", "risk_score",
     "risk_level", "validation_confidence", "is_valid_ecg", "model_used"}

Replied == routeOut # <<>>

\* The subprocess exited with 0 and reported a non-ECG image.
NonEcgRun ==
    /\ routeIn.st = "resolved"
    /\ routeIn.out.k = "object"
    /\ Get(routeIn.out, "is_valid_ecg") = Bool(FALSE)
    /\ Get(routeIn.out, "predicted_class") \in {Undefined, Null}

\* C7: a non-ECG report (exit 0, is_valid_ecg false, predicted_class absent
\* or null) is answered with status "success" and carries the report.
C7_NonEcgIsSuccess ==
    (NonEcgRun /\ Replied)
        => /\ routeOut[1].status = "success"
           /\ Get(routeOut[1].result, "is_valid_ecg") = Bool(FALSE)

\* The run failed: the promise was rejected (non-zero exit, failed spawn),
\* or the output is not JSON, or the payload does not pass validation.
FailedRun ==
    \/ routeIn.st = "rejected"
    \/ routeIn.out.k = "text"
    \/ validatePredictionResult(routeIn.out) # ""

\* C8: a failed run is answered with one error payload that has a message
\* and no result: never status "success", never a prediction result.
C8_FailureIsError ==
    (FailedRun /\ Replied)
        => /\ Len(routeOut) = 1
           /\ routeOut[1].status = "error"
           /\ routeOut[1].code = 500
           /\ routeOut[1].message # ""
           /\ routeOut[1].result = NoPayload

\* A payload with a class, a confidence and a score but no risk level has
\* been answered.
C8_Witness ==
    /\ Replied
    /\ routeIn.st = "resolved"
    /\ routeIn.out.k = "object"
    /\ Get(routeIn.out, "predicted_class") = Str("NORM")
    /\ Get(routeIn.out, "confidence") = Num(90)
    /\ Get(routeIn.out, "risk_score") = Num(25)
    /\ Get(routeIn.out, "risk_level") = Undefined
    /\ Get(routeIn.out, "riskLevel") = Undefined
    /\ routeOut[1].details = "riskLevel missing or invalid"

SuccessReply == Replied /\ routeOut[1].status = "success"

\* C9: a result returned with status "success" has every field of the
\* output contract, present and not null.
C9_CompleteResult ==
    SuccessReply
        => \A x \in ContractFields :
              Get(routeOut[1].result, x).t \notin {"undefined", "null"}

\* C10: in a classification returned with status "success" the five
\* probabilities sum to 1 within 1e-4 (10000 units, within 1) and
\* predicted_class is the class of the largest one.
C10_Distribution ==
    (SuccessReply /\ Get(routeOut[1].result, "is_valid_ecg") # Bool(FALSE))
        => LET pr == Get(routeOut[1].result, "probabilities")
           IN  /\ pr.t = "object"
               /\ Len(pr.p) = Len(Classes)
               /\ SumSeq(pr.p) >= 10000 - 1
               /\ SumSeq(pr.p) <= 10000 + 1
               /\ Get(routeOut[1].result, "predicted_class") = Str(Classes[ArgMax(pr.p)])

(***************************************************************************)
(* Properties of one runPython call.                                       *)
(***************************************************************************)
RECURSIVE Concat(_)
Concat(chunks) == IF chunks = <<>> THEN <<>> ELSE Head(chunks) \o Concat(Tail(chunks))

Chars(str) == {str[i] : i \in 1..Len(str)}

\* The characters only stderr carries.
StderrOnly == UNION {Chars(c) : c \in StderrChunks} \ UNION {Chars(c) : c \in StdoutChunks}

\* C11: the string runPython resolves with is the stdout chunks concatenated
\* in arrival order and trimmed, and holds nothing written to stderr,
\* whatever the interleaving of the stdout and stderr data events.
C11_StdoutOnly ==
    runPromise.st = "resolved" =>
        /\ runPromise.value = Trim(Concat(stdoutLog))
        /\ Chars(runPromise.value) \cap StderrOnly = {}

\* Resolved after both streams carried data, with whitespace trimmed away.
C11_Witness ==
    /\ runPromise.st = "resolved"
    /\ Len(stdoutLog) >= 2
    /\ stderrLog # <<>>
    /\ runPromise.value # <<>>
    /\ runPromise.value # Concat(stdoutLog)

\* What the first event of a run settles the promise with.
FirstOutcome ==
    IF runEvents[1].ev = "error"
        THEN SpawnRejection
        ELSE IF runEvents[1].code = 0
            THEN ResolvedWith(Trim(output))
            ELSE ExitRejection(runEvents[1].code, errors)

\* C20: the promise runPython returns settles once: it is pending until the
\* first error or close event, it resolves only on a first event that is a
\* close with code 0, it rejects on a spawn error and on every other close
\* code (null included), and a later event leaves state and value alone.
C20_SettlesOnce ==
    /\ runEvents = <<>> => runPromise = PendingPromise
    /\ runEvents # <<>> =>
        /\ runPromise = FirstOutcome
        /\ runPromise.st = "resolved" <=> runEvents[1] = RunEvent("close", 0)
        /\ runPromise.st = "rejected" <=> runEvents[1] # RunEvent("close", 0)

\* The close event that follows a spawn error has been handled.
C20_Witness ==
    /\ Len(runEvents) = 2
    /\ runEvents[1].ev = "error"
    /\ runEvents[2].ev = "close"
    /\ runPromise = SpawnRejection

(***************************************************************************)
(* Properties of the predict route's responses.                            *)
(***************************************************************************)
\* The request has left the handler: it returned before the await, or the
\* awaited promise has settled.
HandlerDone(j) ==
    /\ ~Fresh(j)
    /\ j \in Range(enqueued) => promise[j] \in {"resolved", "rejected"}

\* The status code and message of each path through the handler.
PathAnswers(j) ==
    IF j \notin Range(enqueued)
        THEN {<<400, "No ECG image uploaded">>, <<500, "Prediction failed">>}
    ELSE IF promise[j] = "rejected" THEN {<<500, "Prediction failed">>}
    ELSE IF proc[j].out = TextOutput THEN {<<500, "Invalid JSON returned by Python">>}
    ELSE IF proc[j].out = PartialOutput THEN {<<500, "Invalid prediction payload">>}
    ELSE {<<200, "">>}

\* C19: a predict request in the handler has sent at most one response, and
\* once the handler is done exactly one, with the status of its path: 400
\* without a file, 500 when the subprocess failed, printed invalid JSON or
\* failed validation, 200 on success.
C19_OneResponse ==
    \A j \in Jobs :
        /\ Len(replies[j]) <= 1
        /\ Len(replies[j]) = 1 <=> HandlerDone(j)
        /\ HandlerDone(j) =>
              <<replies[j][1].code, replies[j][1].message>> \in PathAnswers(j)

\* Every path has been taken, the late close after a spawn error included.
C19_Witness ==
    \E a \in Jobs, b \in Jobs, c \in Jobs, d \in Jobs :
        /\ replies[a] = <<NoFileReply>>
        /\ proc[b].st = "closed" /\ proc[b].code = SpawnFailCode /\ Len(replies[b]) = 1
        /\ promise[c] = "resolved" /\ proc[c].out = TextOutput /\ Len(replies[c]) = 1
        /\ promise[d] = "resolved" /\ proc[d].out = ValidOutput
        /\ replies[d][1].code = 200

(***************************************************************************)
(* Properties of the CORS decision.                                        *)
(***************************************************************************)
\* C17, as stated: a request is allowed exactly when its Origin header is
\* absent or the origin with one trailing slash removed is in the
\* allow-list; every other request is answered (null, false), no Error.
C17_AbsentOrListed ==
    \A i \in 1..Len(corsLog) :
        LET origin == corsLog[i].origin
            decision == corsLog[i].decision
        IN  /\ decision.err = ""
            /\ decision.allow <=>
                  \/ origin = NotSet
                  \/ StripSlash(origin) \in Range(allowedOrigins)

\* C17, amended: a request is allowed exactly when its Origin header is
\* absent or empty, or the origin with one trailing slash removed is in the
\* allow-list; every other request is answered (null, false), never with an
\* Error.
C17_CorsDecision ==
    \A i \in 1..Len(corsLog) :
        LET origin == corsLog[i].origin
            decision == corsLog[i].decision
        IN  /\ decision.err = ""
            /\ decision.allow <=>
                  \/ origin \in {NotSet, <<>>}
                  \/ StripSlash(origin) \in Range(allowedOrigins)

\* An origin with a trailing slash allowed against an entry configured with
\* one, and another origin rejected.
C17_Witness ==
    /\ env = <<" ", "https://a.example", "/", " ", ",", "https://b.example">>
    /\ Len(corsLog) = 2
    /\ corsLog[1].origin = <<"https://a.example", "/">>
    /\ corsLog[1].decision = Callback("", TRUE)
    /\ corsLog[2].origin = <<"https://c.example">>
    /\ corsLog[2].decision = Callback("", FALSE)

(***************************************************************************)
(* Properties of the start-up.                                             *)
(***************************************************************************)
\* C18: the server listens only after every origin of the allow-list parsed
\* as a URL, mongoose.connect resolved and the seed loop went through every
\* seed user; after an invalid origin or a failed connection the process
\* has exited with code 1 and does not listen.  A process that has exited
\* does not listen, and it exited with code 0 only at the end of a
\* shutdown that was asked for while it listened.
C18_ListenLast ==
    /\ listening =>
          /\ InvalidOrigins(ParseOrigins(env)) = <<>>
          /\ dbConn = "connected"
          /\ seedIdx > Len(Seeds)
          /\ \A i \in 1..Len(Seeds) : FindUser(users, Seeds[i].email) # 0
          /\ exitCode = NotExited
    /\ bootPc # "start" /\ InvalidOrigins(ParseOrigins(env)) # <<>> =>
          bootPc = "exited" /\ exitCode = 1 /\ ~listening /\ dbConn = "none"
    /\ dbConn = "failed" => bootPc = "exited" /\ exitCode = 1 /\ ~listening
    /\ bootPc = "exited" => exitCode \in {0, 1} /\ ~listening
    /\ exitCode = 0 => forceTimer /\ closing = "db" /\ seedIdx > Len(Seeds)

\* Listening with a configured allow-list, the seed loop having created the
\* user that was missing.
C18_Witness ==
    /\ listening
    /\ env = <<" ", "https://a.example", "/", " ", ",", "https://b.example">>
    /\ users = <<Seeds[1], Seeds[2]>>

(***************************************************************************)
(* Properties of the auth routes.                                          *)
(***************************************************************************)
\* C14: no document of the User collection holds, as its password, a
\* plaintext a client supplied: every stored password is a bcrypt hash.
C14_OnlyHashes ==
    \A i \in 1..Len(users) : users[i].password.kind = "hash"

\* C15: a response carries a token only if it is the 201 of a signup whose
\* save inserted the account, or the 200 of a login whose password matched
\* the stored one under bcrypt.compare; every other response (400, 404,
\* 409, 500) carries none.
C15_TokenOnlyOnSuccess ==
    /\ authReply.token # NoToken =>
          \/ /\ authReply.route = "signup"
             /\ authReply.code = 201
             /\ users # <<>>
             /\ users[Len(users)] = UserDoc(authReply.email, Hashed(authReply.password))
          \/ /\ authReply.route = "login"
             /\ authReply.code = 200
             /\ BcryptCompare(authReply.password, authReply.stored)
    /\ authReply.code \notin {0, 200, 201} => authReply.token = NoToken
    /\ authReply.route \in {"signup", "login"} /\ authReply.code \in {200, 201} =>
          authReply.token = Token(authReply.email)

\* A login just refused for a wrong password, against a stored hash.
C15_Witness ==
    /\ authReply.route = "login"
    /\ authReply.code = 400
    /\ authReply.message = "Incorrect password"
    /\ authReply.stored = Hashed("secret1")
    /\ authReply.password = "secret2"
    /\ authReply.token = NoToken

\* The routes mounted under /api/auth.
AuthRoutes == {"signup", "login"}

\* C12: a request to a route outside /health and /api/auth/* that carries
\* no valid JWT is rejected before it reads or changes stored data: its
\* handler has touched nothing, in flight or answered.
C12_JwtRequired ==
    /\ \A c \in Clients :
          areq[c].route \notin AuthRoutes \cup {"none"} /\ areq[c].jwt = "none" =>
              areq[c].touched = "none"
    /\ authReply.route \notin AuthRoutes \cup {"none"} /\ authReply.jwt = "none" =>
          authReply.touched = "none"

(***************************************************************************)
(* Properties of the patient ids.                                          *)
(***************************************************************************)
\* C13: whatever the interleaving of concurrent save-report requests for
\* the same email, no two stored reports of that email have the same
\* patientId.
C13_DistinctIds ==
    \A i \in 1..Len(reports), k \in 1..Len(reports) :
        i # k /\ reports[i].userEmail = reports[k].userEmail =>
            reports[i].patientId # reports[k].patientId

(***************************************************************************)
(* Properties of the upload.                                               *)
(***************************************************************************)
\* The extensions and MIME types of SECURITY_FIXES.md and of the filter's
\* error message: JPEG, JPG, PNG, GIF.
ListedExtensions == {<<".">> \o t : t \in AllowedTypes}

ListedMimeTypes == {<<"image/">> \o t : t \in AllowedTypes}

NotAnImage(file) ==
    \/ file.size > FileSizeLimit
    \/ ToLowerCase(file.ext) \notin ListedExtensions
    \/ file.mime \notin ListedMimeTypes

\* C16: for an upload larger than 10 MB, or whose extension or MIME type is
\* not one of jpeg, jpg, png, gif, no job is enqueued and no subprocess is
\* spawned, and the request ends in an error response.
C16_BadUploadRejected ==
    upload # NoFile /\ NotAnImage(upload) =>
        /\ enqueued = <<>>
        /\ spawns[1] = 0
        /\ uploadPc = "failed" => uploadReply.code >= 400
        /\ replies[1] # <<>> => replies[1][1].code >= 400

(***************************************************************************)
(* Progress of the queue.                                                  *)
(***************************************************************************)
\* C21: when every spawned subprocess closes or fails to spawn, every
\* enqueued job leaves the queue and starts, and every request that reached
\* the handler gets its response: no job stays Queued forever.
C21_NoStarvation ==
    \A j \in Jobs :
        /\ (j \in Range(enqueued)) ~> (JobState(j) \in {"Running"} \cup Terminal)
        /\ (~Fresh(j)) ~> (Len(replies[j]) = 1)

\* The whole burst was enqueued and answered, the jobs that had to wait
\* for a slot included.
C21_Witness ==
    /\ Len(enqueued) = NJobs
    /\ \A j \in Jobs : Len(replies[j]) = 1 /\ JobState(j) \in Terminal

(***************************************************************************)
(* The request without a file.                                             *)
(***************************************************************************)
\* C22: the step in which the handler meets a request without a file sends
\* 400 "No ECG image uploaded" and leaves the queue, the count of running
\* tasks, the promises, the processes and the spawn counts as they were;
\* and no later step enqueues that request, spawns for it or answers it
\* again.
C22_NoFileNoJob ==
    [][\A j \in Jobs :
          /\ received[j] = "" /\ received'[j] = "none" =>
                /\ replies'[j] = <<Reply(400, "error", "No ECG image uploaded", "",
                                         NoPayload, NoPayload)>>
                /\ queue' = queue /\ Len(queue') = Len(queue)
                /\ pending' = pending
                /\ enqueued' = enqueued
                /\ promise' = promise /\ proc' = proc /\ spawns' = spawns
          /\ received[j] = "none" =>
                /\ received'[j] = "none"
                /\ replies'[j] = replies[j]
                /\ j \notin Range(enqueued') \cup Range(queue')
                /\ spawns'[j] = 0 /\ proc'[j] = NoProc /\ promise'[j] = "none"]_vars

\* A request without a file was answered while both slots were busy and a
\* job was waiting, and the queue went on afterwards.
C22_Witness ==
    \E j \in Jobs, k \in Jobs :
        /\ received[j] = "none"
        /\ replies[j] = <<NoFileReply>>
        /\ k > j /\ received[k] = "ok" /\ JobState(k) = "Queued"
        /\ pending = Concurrency

(***************************************************************************)
(* Password change and login.                                              *)
(***************************************************************************)
\* C23: password change round-trips with login.  An update-password that
\* names, as currentPassword, the password whose hash signup stored is not
\* refused (it answers 200, or 500 when the save fails); and a login against
\* a stored password that is not cut short by a server error succeeds
\* exactly when it names the password that signup or the last
\* update-password set.
C23_RoundTrip ==
    /\ /\ authReply.route = "update-password"
       /\ authReply.stored.kind = "hash"
       /\ authReply.current = Plain(authReply.stored.of)
       => authReply.code \in {200, 500}
    /\ /\ authReply.route = "login"
       /\ authReply.stored # NoPassword
       /\ authReply.code # 500
       => (authReply.code = 200 <=> authReply.password = authReply.stored.of)

(***************************************************************************)
(* The order of the signup checks.                                         *)
(***************************************************************************)
\* The first three checks of signup hold for the body of response r.
PassesBodyChecks(r) ==
    /\ r.email # "" /\ r.password # "" /\ r.confirm # ""
    /\ r.password = r.confirm
    /\ Len(r.password) >= 6

\* C24: every step that answers a signup follows the check order (a missing
\* field gives 400, else a password different from confirmPassword gives
\* 400, else a password shorter than 6 gives 400, else an email that findOne
\* finds gives 409); a signup answered with anything but 201 leaves the User
\* collection as it was; and 201 is sent only by a signup that passed the
\* three body checks and whose document the step appends.
C24_SignupChecks ==
    [][authReply'.route = "signup" =>
          /\ authReply'.code \in {400, 409, 201, 500}
          /\ (authReply'.email = "" \/ authReply'.password = "" \/ authReply'.confirm = "")
                => (authReply'.code = 400 /\ authReply'.message = "All fields are required")
          /\ (/\ authReply'.email # "" /\ authReply'.password # "" /\ authReply'.confirm # ""
              /\ authReply'.password # authReply'.confirm)
                => (authReply'.code = 400 /\ authReply'.message = "Passwords do not match")
          /\ (/\ authReply'.email # "" /\ authReply'.password # "" /\ authReply'.confirm # ""
              /\ authReply'.password = authReply'.confirm
              /\ Len(authReply'.password) < 6)
                => (/\ authReply'.code = 400
                    /\ authReply'.message = "Password must be at least 6 characters")
          /\ authReply'.code = 400 => ~PassesBodyChecks(authReply')
          /\ authReply'.code = 409 =>
                (PassesBodyChecks(authReply') /\ FindUser(users, authReply'.email) # 0)
          /\ \A c \in Clients :
                (/\ areq[c].route = "signup" /\ areq[c].pc = "find"
                 /\ areq'[c] = NoRequest
                 /\ FindUser(users, areq[c].email) # 0)
                => authReply'.code \in {409, 500}
          /\ authReply'.code = 201 =>
                (/\ PassesBodyChecks(authReply')
                 /\ users' = Append(users, UserDoc(authReply'.email,
                                                   Hashed(authReply'.password))))
          /\ authReply'.code # 201 => users' = users]_vars

====
